---- MODULE Spec2Model ----
(***************************************************************************)
(* DecoPlanner (src/src/app/deco-planner.service.ts): a Buhlmann ZH-L16C   *)
(* dive simulation run as descent, bottom and ascent loops over a fixed    *)
(* 0.1 minute timestep.                                                    *)
(*                                                                         *)
(* Number representation.                                                  *)
(*  - Elapsed time (t, tEndBottom, log.time) is an IEEE-754 double in the  *)
(*    code and is modelled exactly: a time is the integer number of        *)
(*    2^-56 minutes it denotes, held in four base-2^16 limbs (least        *)
(*    significant first), and DAdd is the exact sum rounded to 53          *)
(*    significant bits, ties to even, as the hardware does.                *)
(*  - Depths are tenths of a metre (every depth the modelled inputs        *)
(*    produce is a multiple of 0.5 m, which doubles hold exactly).         *)
(*  - Pressures, gas fractions, gradient factors and consumption are       *)
(*    fixed point with six decimals (S = 10^6), products and quotients     *)
(*    rounded to the nearest / floor unit; computed depths (ceiling,       *)
(*    switch depth) are micrometres.  TLC's integers are 32 bits wide,     *)
(*    so products are formed from three-digit halves.                      *)
(***************************************************************************)
EXTENDS Integers, Sequences, FiniteSets, TLC

VARIABLES
    cfg,         \* the constructor's arguments (DecoPlanner's parameter fields)
    pc,          \* position inside run(): "descent", "bottom", "ascent", "done"
    t,           \* run()'s local t, a double
    currD,       \* run()'s local currD, decimetres
    tEndBottom,  \* run()'s local tEndBottom, a double
    tissues,     \* this.tissues, 16 pressures
    log,         \* this.log: time, depth, ppo2, tissues (16 series), cons
    ceiling,     \* the ascent loop body's const ceiling (micrometres)
    nextStop,    \* the ascent loop body's const nextStop (decimetres)
    runs,        \* number of calls of run() on this instance so far
    returned,    \* history: the content of the DiveLog at the first return of run()
    phaseLog     \* history: the loop of run() that appended each sample

vars == <<cfg, pc, t, currD, tEndBottom, tissues, log, ceiling, nextStop,
          runs, returned, phaseLog>>

(***************************************************************************)
(* Bounds of the model.                                                    *)
(***************************************************************************)
\* No step is taken once the log holds this many samples.
MaxSamples == 100

\* run() is called at most this many times on one instance.
MaxRuns == 2

(***************************************************************************)
(* Fixed-point arithmetic.                                                 *)
(***************************************************************************)
S == 1000 * 1000

K == 10 * 100

Max(a, b) == IF a >= b THEN a ELSE b

\* x * y / S rounded to the nearest unit (halves up), without forming x * y.
FMul(x, y) ==
    LET a1 == x \div K
        a0 == x % K
        b1 == y \div K
        b0 == y % K
        mid == a1 * b0 + a0 * b1 + ((a0 * b0 + (S \div 2)) \div K)
    IN  a1 * b1 + (mid \div K)

\* floor(x * S / y) for y > 0, by long division two decimals at a time.
FDiv(x, y) ==
    LET q0 == x \div y
        r0 == x % y
        q1 == (r0 * 100) \div y
        r1 == (r0 * 100) % y
        q2 == (r1 * 100) \div y
        r2 == (r1 * 100) % y
        q3 == (r2 * 100) \div y
    IN  q0 * S + q1 * 10000 + q2 * 100 + q3

\* ceil(x / y) for x >= 0, y > 0: Math.ceil of a quotient.
CeilDiv(x, y) == (x + y - 1) \div y

(***************************************************************************)
(* IEEE-754 double addition on times.                                      *)
(***************************************************************************)
Limb == 256 * 256

RECURSIVE BitLen(_)
BitLen(n) == IF n = 0 THEN 0 ELSE 1 + BitLen(n \div 2)

RECURSIVE Pow2(_)
Pow2(k) == IF k = 0 THEN 1 ELSE 2 * Pow2(k - 1)

\* The exact sum of two times.
BigAdd(x, y) ==
    LET s0 == x[1] + y[1]
        s1 == x[2] + y[2] + (s0 \div Limb)
        s2 == x[3] + y[3] + (s1 \div Limb)
        s3 == x[4] + y[4] + (s2 \div Limb)
    IN  <<s0 % Limb, s1 % Limb, s2 % Limb, s3>>

\* z rounded to 53 significant bits, ties to even.
Round53(z) ==
    LET s == 48 + BitLen(z[4]) - 53
    IN  IF z[4] = 0 \/ s <= 0
        THEN z
        ELSE LET p == Pow2(s)
                 rem == z[1] % p
                 q == z[1] \div p
                 up == (rem * 2 > p) \/ (rem * 2 = p /\ q % 2 = 1)
                 base == <<z[1] - rem, z[2], z[3], z[4]>>
             IN  IF up THEN BigAdd(base, <<p, 0, 0, 0>>) ELSE base

\* x + y as the code's double addition computes it.
DAdd(x, y) == Round53(BigAdd(x, y))

\* x < y on times.
DLess(x, y) ==
    \/ x[4] < y[4]
    \/ x[4] = y[4] /\ x[3] < y[3]
    \/ x[4] = y[4] /\ x[3] = y[3] /\ x[2] < y[2]
    \/ x[4] = y[4] /\ x[3] = y[3] /\ x[2] = y[2] /\ x[1] < y[1]

DZero == <<0, 0, 0, 0>>

\* this.dt = 0.1, the double 0x3FB999999999999A = 0x1999999999999A * 2^-56.
Dt == <<39322, 39321, 39321, 25>>

\* A bottom time given in quarter minutes, as a double (q * 2^54).
DQuarters(q) == <<0, 0, 0, q * 64>>

(***************************************************************************)
(* ZH-L16C coefficients.                                                   *)
(***************************************************************************)
NComp == 16

Comps == 1 .. NComp

\* exp(-(ln 2 / hl[i]) * dt) for hl = 4, 5, 8, 12.5, ... 498 minutes.
ExpK == <<982821, 986233, 991373, 994470, 996260, 997436, 998192, 998724,
          999100, 999364, 999525, 999629, 999710, 999773, 999822, 999861>>

CoefA == <<1259900, 1000000, 861800, 756200, 666700, 560000, 494700, 450000,
           418700, 379800, 349700, 322300, 285000, 273700, 252300, 232700>>

CoefB == <<505000, 631400, 722200, 782500, 812600, 843400, 869300, 891000,
           909200, 922200, 931900, 940300, 947700, 954400, 960200, 965300>>

\* The initial tissue pressure, 0.79 bar.
TissueInit == 790000

InitTissues == [i \in Comps |-> TissueInit]

EmptyLog == [time |-> <<>>, depth |-> <<>>, ppo2 |-> <<>>,
             tissues |-> [i \in Comps |-> <<>>], cons |-> 0]

(***************************************************************************)
(* The constructor: the fields derived from the arguments.                 *)
(***************************************************************************)
gfLow == cfg.gfLow * 10000

gfHigh == cfg.gfHigh * 10000

fO2Bottom == cfg.fO2Bottom * 10000

fN2Bottom == S - fO2Bottom

\* fO2Deco ? fO2Deco / 100 : fO2Bottom  (0 stands for an absent argument)
fO2Deco == IF cfg.fO2Deco # 0 THEN cfg.fO2Deco * 10000 ELSE fO2Bottom

fN2Deco == S - fO2Deco

\* The water vapour correction, 0.0627 bar.
WaterVapour == 62700

\* The PPO2 limit of getSwitchDepth, 1.6 bar.
MaxPPO2 == 1600000

\* 15.0 * dt metres of descent per timestep, in decimetres.
DescentPerStep == 15

\* The staged-stop granularity, 3.0 metres, in decimetres.
StopStep == 30

\* One decimetre in micrometres.
DmMicro == 100 * 1000

\* (1.6 / fO2Deco - 1) * 10 metres, in micrometres.
getSwitchDepth == (FDiv(MaxPPO2, fO2Deco) - S) * 10

\* Ambient pressure at depth d: d / 10 + 1 bar.
PAmb(d) == d * 10000 + S

(***************************************************************************)
(* update(d, t, isDeco)                                                    *)
(***************************************************************************)
\* Mutant of ActiveFN2: the phase flag is ignored.
ActiveFN2AnyPhase(d, isDeco) ==
    IF d * DmMicro <= getSwitchDepth THEN fN2Deco ELSE fN2Bottom

\* The inert gas fraction update() breathes at depth d.
ActiveFN2(d, isDeco) ==
    IF isDeco /\ d * DmMicro <= getSwitchDepth THEN fN2Deco ELSE fN2Bottom

\* The tissue pressures after one timestep at depth d on a gas of fraction fN2.
UpdTissues(ts, d, fN2) ==
    LET pAlv == FMul(PAmb(d) - WaterVapour, fN2)
    IN  [i \in Comps |-> pAlv + FMul(ts[i] - pAlv, ExpK[i])]

\* Mutant of UpdCons: the surface bar is left out of the ambient pressure.
UpdConsGauge(cons, d) == cons + ((cfg.sac * (d * 10000)) \div 10)

\* log.cons after one more timestep at depth d: cons + sac * pAmb * dt.
UpdCons(cons, d) == cons + ((cfg.sac * PAmb(d)) \div 10)

\* The PPO2 update() records: pAmb * (1 - fN2).
UpdPPO2(d, fN2) == FMul(PAmb(d), S - fN2)

\* The log after update() appended the sample of depth d at time tt.
UpdLog(lg, ts2, d, tt, fN2) ==
    [time    |-> Append(lg.time, tt),
     depth   |-> Append(lg.depth, d),
     ppo2    |-> Append(lg.ppo2, UpdPPO2(d, fN2)),
     tissues |-> [i \in Comps |-> Append(lg.tissues[i], ts2[i])],
     cons    |-> UpdCons(lg.cons, d)]

Update(d, tt, isDeco, phase) ==
    LET fN2 == ActiveFN2(d, isDeco)
        ts2 == UpdTissues(tissues, d, fN2)
    IN  /\ tissues' = ts2
        /\ log' = UpdLog(log, ts2, d, tt, fN2)
        /\ phaseLog' = Append(phaseLog, phase)

(***************************************************************************)
(* getCeiling(currentDepth)                                                *)
(***************************************************************************)
\* gfHigh + gfSlope * currentDepth, gfSlope = (gfHigh - gfLow) / (0 - depth).
CurrentGf(cd) == gfHigh - (((gfHigh - gfLow) * cd) \div cfg.depth)

\* One compartment's tolerated ambient pressure.
CompCeiling(p, i, gf) ==
    FDiv(p - FMul(CoefA[i], gf), FDiv(gf, CoefB[i]) + S - gf)

\* Math.max(0, (Math.max(...ceilings) - 1.0) * 10.0), in micrometres.
GetCeiling(ts, cd) ==
    LET gf == CurrentGf(cd)
        cs == {CompCeiling(ts[i], i, gf) : i \in Comps}
        cmax == CHOOSE c \in cs : \A x \in cs : x <= c
    IN  Max(0, (cmax - S) * 10)

\* Math.ceil(ceiling / 3.0) * 3.0, in decimetres.
NextStop(c) == CeilDiv(c, StopStep * DmMicro) * StopStep

\* Mutant of MoveToward: the overshoot is not clamped to the stop.
MoveTowardOvershoot(cd, ns) == IF cd > ns THEN cd - cfg.vUp ELSE ns

\* The depth the ascent moves to from cd when the next stop is ns.
MoveToward(cd, ns) ==
    IF cd > ns
    THEN LET m == cd - cfg.vUp IN IF m < ns THEN ns ELSE m
    ELSE ns

(***************************************************************************)
(* Configurations.                                                         *)
(***************************************************************************)
Cfg(d, bt, v, sac, gl, gh, fb, fd) ==
    [depth |-> d, bottomTime |-> bt, vUp |-> v, sac |-> sac,
     gfLow |-> gl, gfHigh |-> gh, fO2Bottom |-> fb, fO2Deco |-> fd]

\* depth (dm), bottom time (quarter minutes), ascent rate (m/min), SAC,
\* GF low and high (percent), bottom and deco oxygen (percent, 0: none).
Configs ==
    { Cfg(60, 4, 10, 19, 30, 70, 32, 0),      \* 6 m, 1 min, no stop
      Cfg(10, 4, 10, 19, 30, 70, 32, 0),      \* 1 m, 1 min
      Cfg(40, 2, 10, 19, 30, 70, 32, 50),     \* 4 m, 0.5 min, EAN50 from the bottom
      Cfg(150, 8, 20, 19, 5, 5, 21, 80),      \* 15 m, stops at 3 m, EAN80 from 10 m
      Cfg(120, 12, 20, 19, 5, 5, 21, 100),    \* 12 m, stops at 3 m, oxygen from 6 m
      Cfg(180, 8, 20, 19, 3, 20, 10, 50),     \* 18 m, next stop of 6 m on the way up
      Cfg(20, 28, 10, 19, 1, 1, 1, 0),        \* 2 m, 7 min on 1 % oxygen, GF 1/1
      Cfg(50, 12, 10, 19, 100, 1, 1, 0) }     \* gfLow > gfHigh

ValidConfig ==
    /\ cfg.depth > 0 /\ cfg.bottomTime > 0 /\ cfg.vUp > 0 /\ cfg.sac > 0
    /\ 0 < cfg.gfLow /\ cfg.gfLow <= cfg.gfHigh /\ cfg.gfHigh <= 100
    /\ 0 < cfg.fO2Bottom /\ cfg.fO2Bottom <= 100
    /\ 0 <= cfg.fO2Deco /\ cfg.fO2Deco <= 100

(***************************************************************************)
(* run()                                                                   *)
(***************************************************************************)
Init ==
    /\ cfg \in Configs
    /\ pc = "ready"
    /\ t = DZero
    /\ currD = 0
    /\ tEndBottom = DZero
    /\ tissues = InitTissues
    /\ log = EmptyLog
    /\ ceiling = 0
    /\ nextStop = 0
    /\ runs = 0
    /\ returned = <<>>
    /\ phaseLog = <<>>

Room == Len(log.time) < MaxSamples

\* run() is called: let t = 0; let currD = 0.0.
CallRun ==
    /\ pc \in {"ready", "done"}
    /\ runs < MaxRuns
    /\ runs' = runs + 1
    /\ t' = DZero
    /\ currD' = 0
    /\ pc' = "descent"
    /\ UNCHANGED <<cfg, tEndBottom, tissues, log, ceiling, nextStop, returned, phaseLog>>

\* One iteration of while (currD < this.depth).
DescentStep ==
    /\ pc = "descent"
    /\ currD < cfg.depth
    /\ Room
    /\ Update(currD, t, FALSE, "descent")
    /\ currD' = currD + DescentPerStep
    /\ t' = DAdd(t, Dt)
    /\ UNCHANGED <<cfg, pc, tEndBottom, ceiling, nextStop, runs, returned>>

\* The descent loop ends: const tEndBottom = t + this.bottomTime.
DescentEnd ==
    /\ pc = "descent"
    /\ ~(currD < cfg.depth)
    /\ tEndBottom' = DAdd(t, DQuarters(cfg.bottomTime))
    /\ pc' = "bottom"
    /\ UNCHANGED <<cfg, t, currD, tissues, log, ceiling, nextStop, runs, returned, phaseLog>>

\* One iteration of while (t < tEndBottom).
BottomStep ==
    /\ pc = "bottom"
    /\ DLess(t, tEndBottom)
    /\ Room
    /\ Update(cfg.depth, t, FALSE, "bottom")
    /\ t' = DAdd(t, Dt)
    /\ UNCHANGED <<cfg, pc, currD, tEndBottom, ceiling, nextStop, runs, returned>>

\* The bottom loop ends: currD = this.depth.
BottomEnd ==
    /\ pc = "bottom"
    /\ ~DLess(t, tEndBottom)
    /\ currD' = cfg.depth
    /\ pc' = "ascent"
    /\ UNCHANGED <<cfg, t, tEndBottom, tissues, log, ceiling, nextStop, runs, returned, phaseLog>>

\* What return this.log hands out: the log object itself.
Return(lg) ==
    /\ pc' = "done"
    /\ returned' = IF returned = <<>> THEN <<lg>> ELSE returned

\* One iteration of while (currD > 0), with its break.
AscentStep ==
    /\ pc = "ascent"
    /\ currD > 0
    /\ Room
    /\ ceiling' = GetCeiling(tissues, currD)
    /\ nextStop' = NextStop(ceiling')
    /\ currD' = MoveToward(currD, nextStop')
    /\ Update(currD', t, TRUE, "ascent")
    /\ t' = DAdd(t, Dt)
    /\ IF currD' = 0 /\ GetCeiling(tissues', 0) <= 0
       THEN Return(log')
       ELSE UNCHANGED <<pc, returned>>
    /\ UNCHANGED <<cfg, tEndBottom, runs>>

\* The loop condition currD > 0 fails: return this.log.
AscentEnd ==
    /\ pc = "ascent"
    /\ ~(currD > 0)
    /\ Return(log)
    /\ UNCHANGED <<cfg, t, currD, tEndBottom, tissues, log, ceiling, nextStop, runs, phaseLog>>

Next ==
    \/ CallRun
    \/ DescentStep
    \/ DescentEnd
    \/ BottomStep
    \/ BottomEnd
    \/ AscentStep
    \/ AscentEnd

Spec == Init /\ [][Next]_vars

(***************************************************************************)
(* Properties.                                                             *)
(***************************************************************************)
NSamples == Len(log.time)

LastDepth == log.depth[Len(log.depth)]

\* The alveolar inert gas pressure of the bottom gas at depth d.
PAlvAt(d) == FMul(PAmb(d) - WaterVapour, fN2Bottom)

\* A depth in micrometres computed from a tolerated ambient pressure.
DepthOf(p) == Max(0, (p - S) * 10)

Min(a, b) == IF a <= b THEN a ELSE b

\* An ascent state from which the surface is never reached.  On a single gas
\* and with gfLow <= gfHigh, at a depth of at least the stop d0: let P be the
\* smaller of compartment i's pressure and the pressure it equilibrates to at
\* d0.  At any depth >= d0 a timestep leaves the compartment between its
\* pressure and the (no smaller) equilibrium pressure of that depth, so it
\* stays >= P, and the gradient factor is no larger than at d0.  If P alone
\* puts the next stop at d0 or deeper, the next stop never comes above d0
\* again (TrapStable).
Trapped ==
    /\ pc = "ascent"
    /\ ValidConfig
    /\ fN2Deco = fN2Bottom
    /\ \E k \in 1 .. (currD \div StopStep) : \E i \in Comps :
          LET d0 == k * StopStep
              P == Min(tissues[i], PAlvAt(d0))
          IN  NextStop(DepthOf(CompCeiling(P, i, CurrentGf(d0)))) >= d0

\* Once trapped, always trapped: the loop goes on and the depth stays positive.
TrapStable == [][Trapped => (Trapped' /\ pc' = "ascent" /\ currD' > 0)]_vars

\* C1: for any valid configuration the ascent phase completes (within a
\* safety bound) and run() returns: no reachable ascent state of a valid
\* configuration is one from which the surface can never be reached.
C1_AscentTerminates == ~Trapped

\* C2: whenever run() has returned, the last logged depth is 0 and the
\* ceiling re-evaluated at depth 0 on the final tissue state is <= 0.
C2_EndsOnlyWhenClear ==
    pc = "done" =>
        /\ NSamples > 0
        /\ LastDepth = 0
        /\ GetCeiling(tissues, 0) <= 0

\* The same for the configurations the specification calls valid.
SurfaceClearWhenValid ==
    (pc = "done" /\ ValidConfig) => (LastDepth = 0 /\ GetCeiling(tissues, 0) <= 0)

\* C3: in every ascent timestep the next stop is the ceiling of the state at
\* the start of the timestep rounded up to a multiple of 3 m, the depth
\* logged is never shallower than that stop, and it is the stop itself when
\* the gap to the stop is smaller than one timestep of travel.
C3_StopRounding ==
    [][(pc = "ascent" /\ Len(log'.depth) = Len(log.depth) + 1) =>
         LET logged == log'.depth[Len(log'.depth)]
         IN  /\ ceiling' = GetCeiling(tissues, currD)
             /\ nextStop' % StopStep = 0
             /\ nextStop' * DmMicro >= ceiling'
             /\ (nextStop' - StopStep) * DmMicro < ceiling'
             /\ logged >= nextStop'
             /\ (currD - nextStop' < cfg.vUp => logged = nextStop')]_vars

\* A timestep that snapped to a 3 m stop: from 4 m at 2 m per timestep.
C3_Witness ==
    /\ pc = "ascent"
    /\ cfg.vUp = 20
    /\ ceiling > 0
    /\ nextStop = StopStep
    /\ NSamples >= 2
    /\ log.depth[NSamples - 1] = 40
    /\ phaseLog[NSamples - 1] = "ascent"
    /\ LastDepth = StopStep

\* The oxygen fraction the selection rule gives sample i: the deco gas in the
\* ascent at depths where its PPO2 is at most 1.6 bar (depth <= MOD), the
\* bottom gas otherwise.
RuleFO2(i) ==
    IF phaseLog[i] = "ascent" /\ FMul(PAmb(log.depth[i]), fO2Deco) <= MaxPPO2
    THEN fO2Deco
    ELSE fO2Bottom

\* C4: every descent and bottom sample is computed with the bottom gas, an
\* ascent sample with the deco gas iff its depth is <= MOD(deco O2); without
\* a deco gas no sample shows a gas change.
C4_GasSelection ==
    \A i \in 1 .. NSamples :
        /\ log.ppo2[i] = FMul(PAmb(log.depth[i]), RuleFO2(i))
        /\ (cfg.fO2Deco = 0 => log.ppo2[i] = FMul(PAmb(log.depth[i]), fO2Bottom))

\* An ascent that switched gas on the way up.
C4_Witness ==
    /\ fO2Deco # fO2Bottom
    /\ \E i \in 1 .. NSamples : \E j \in 1 .. NSamples :
          /\ i < j
          /\ phaseLog[i] = "ascent"
          /\ phaseLog[j] = "ascent"
          /\ log.ppo2[i] = FMul(PAmb(log.depth[i]), fO2Bottom)
          /\ log.ppo2[j] = FMul(PAmb(log.depth[j]), fO2Deco)
          /\ log.ppo2[j] # FMul(PAmb(log.depth[j]), fO2Bottom)

\* n * x exactly, n a small natural number.
BigScale(n, x) ==
    LET p0 == x[1] * n
        p1 == x[2] * n + (p0 \div Limb)
        p2 == x[3] * n + (p1 \div Limb)
        p3 == x[4] * n + (p2 \div Limb)
    IN  <<p0 % Limb, p1 % Limb, p2 % Limb, p3>>

\* n * x as a double multiplication computes it.
DScale(n, x) == Round53(BigScale(n, x))

\* C5: all 19 series of the log have the same length, the first time value
\* is 0 and sample n (counted from 0) has time n * 0.1.
C5_LogShape ==
    /\ Len(log.depth) = NSamples
    /\ Len(log.ppo2) = NSamples
    /\ \A i \in Comps : Len(log.tissues[i]) = NSamples
    /\ \A k \in 1 .. NSamples : log.time[k] = DScale(k - 1, Dt)

\* The shape alone: the series have one length and the times increase.
LogSeriesAligned ==
    /\ Len(log.depth) = NSamples
    /\ Len(log.ppo2) = NSamples
    /\ Len(phaseLog) = NSamples
    /\ \A i \in Comps : Len(log.tissues[i]) = NSamples

Rank(ph) == IF ph = "descent" THEN 1 ELSE IF ph = "bottom" THEN 2 ELSE 3

NBottom == Cardinality({i \in 1 .. NSamples : phaseLog[i] = "bottom"})

\* C6: the log is a descent segment (depths from 0 in steps of 15 * dt, all
\* below the target depth), then a bottom segment of exactly bottomTime / dt
\* samples at the target depth, then the ascent segment.
C6_PhaseOrder ==
    /\ \A i \in 1 .. NSamples : \A j \in 1 .. NSamples :
          i < j => Rank(phaseLog[i]) <= Rank(phaseLog[j])
    /\ \A i \in 1 .. NSamples :
          /\ phaseLog[i] = "descent" =>
                (log.depth[i] = DescentPerStep * (i - 1) /\ log.depth[i] < cfg.depth)
          /\ phaseLog[i] = "bottom" => log.depth[i] = cfg.depth
    /\ pc \in {"ascent", "done"} => 4 * NBottom = 10 * cfg.bottomTime

\* C7: an invalid configuration is reported before the simulation starts: no
\* sample is logged and tissues and consumption stay as constructed.
C7_ConfigRejected ==
    ~ValidConfig => (log = EmptyLog /\ tissues = InitTissues)

\* C8: each call of run() starts from 16 tissue pressures of 0.79 and an
\* empty log, and a DiveLog that run() has returned is never changed again.
C8_RunIsolation ==
    /\ (pc = "descent" /\ currD = 0) => (tissues = InitTissues /\ log = EmptyLog)
    /\ returned # <<>> => log = returned[1]

RECURSIVE SumCons(_)
SumCons(ds) ==
    IF ds = <<>>
    THEN 0
    ELSE SumCons(SubSeq(ds, 1, Len(ds) - 1))
         + ((cfg.sac * (ds[Len(ds)] * 10000 + S)) \div 10)

\* C9: log.cons is the sum over the logged samples of SAC * (depth / 10 + 1)
\* * dt, each recorded PPO2 is (depth / 10 + 1) times the oxygen fraction of
\* the sample's gas, and log.cons grows with every appended sample.
C9_Consumption ==
    /\ [](/\ log.cons = SumCons(log.depth)
          /\ \A i \in 1 .. NSamples :
                log.ppo2[i] = (log.depth[i] + 100) * (RuleFO2(i) \div 10000) * 100)
    /\ [][/\ log'.cons >= log.cons
          /\ Len(log'.time) > Len(log.time) => log'.cons > log.cons]_vars

\* A log with samples of all three loops and gas consumed.
C9_Witness ==
    /\ cfg.sac > 0
    /\ NSamples >= 10
    /\ \E i \in 1 .. NSamples : phaseLog[i] = "ascent" /\ log.depth[i] > 0
    /\ \E i \in 1 .. NSamples : phaseLog[i] = "bottom"
    /\ log.cons > 0

\* C10: every logged depth lies between 0 and the target depth, and within
\* the ascent the logged depth never increases from one sample to the next.
C10_DepthBounds ==
    /\ \A i \in 1 .. NSamples : 0 <= log.depth[i] /\ log.depth[i] <= cfg.depth
    /\ \A i \in 1 .. (NSamples - 1) :
          (phaseLog[i] = "ascent" /\ phaseLog[i + 1] = "ascent")
              => log.depth[i + 1] <= log.depth[i]

====
